---- MODULE Spec2Model ----
(***************************************************************************)
(* SSO token issuance and redemption of the YCode Cloud management app.    *)
(*                                                                         *)
(* The model covers lib/sso-tokens (generateSSOToken, validateSSOToken,    *)
(* generateAccessURL), the route handlers POST /api/sso/generate,          *)
(* POST /api/sso/validate and POST /api/projects/create, and the two       *)
(* management tables the handlers query (tenants, tenant_users).           *)
(*                                                                         *)
(* Time is the wall clock in milliseconds (Date.now()).  jsonwebtoken      *)
(* works in whole seconds: sign stamps iat = floor(Date.now() / 1000) and  *)
(* exp = iat + 900, verify compares floor(Date.now() / 1000) >= exp.       *)
(*                                                                         *)
(* A token is the triple header.payload.signature.  The signature is the   *)
(* MAC of header and payload under the signing key, so a payload changed   *)
(* without the key, or a token signed under another key, does not verify.  *)
(*                                                                         *)
(* The store answers as its schema prescribes: a query returns the rows    *)
(* that match, .single() reports an error unless exactly one row matches.  *)
(***************************************************************************)
EXTENDS Integers, Sequences, FiniteSets, Bags, TLC

VARIABLES
    now,            \* Date.now(), milliseconds
    ssoSecret,      \* process.env.SSO_SECRET ("" when not configured)
    internalApiKey, \* process.env.INTERNAL_API_KEY ("" when not configured)
    tenants,        \* rows of table tenants
    tenant_users,   \* rows of table tenant_users
    minted,         \* tokens handed out so far, each with what was given to
                    \* mint, the instant, and the tenant's status and plan at
                    \* that instant
    rd,             \* locals of the POST /api/sso/validate request in flight
    cr,             \* locals of the POST /api/projects/create requests in
                    \* flight, a bag
    out,            \* the request just answered and its response, until the
                    \* caller has taken it
    envOps,         \* writes made by the billing / provisioning collaborators
    outcomes        \* what the holders of minted tokens have been answered

vars == <<now, ssoSecret, internalApiKey, tenants, tenant_users, minted, rd, cr, out, envOps, outcomes>>

----------------------------------------------------------------------------
(* Bounds of the model *)

MaxMinted == 1
MaxEnvOps == 1
MaxCreates == 2

----------------------------------------------------------------------------
(* Program constants *)

ExpiresInSec == 900
MsPerSec == 1000

Issuer == "ycode-cloud-management"
Audience == "ycode-cloud-deployment"
DefaultEmail == "user@ycode.app"
Alg == "HS256"

Statuses == {"active", "suspended", "cancelled"}
Plans == {"free", "pro"}
Roles == {"owner", "editor"}

----------------------------------------------------------------------------
(* Input domains *)

TenantIds == {"t1", "t2"}
UserIds == {"u1", "u2"}
Secrets == {"k1", ""}
InternalApiKeys == {"ik", ""}

\* The x-api-key header of a lookup, a set: absent, the key, another key
ApiKeyHeaders == {{}, {"ik"}, {"bad"}}

\* The subdomain or domain parameter of a lookup, a sequence of characters
\* (<<>> when absent)
LookupParams == {<<>>, <<"a">>, <<"d">>, <<"z">>}
OtherSecret == "k2"
Undefined == -1

\* Sampled instants of the wall clock: the start, half a second later, half
\* a second before the fifteen-minute mark, and the mark itself.
Lifetime == ExpiresInSec * MsPerSec
Instants == {0, MsPerSec \div 2, Lifetime - (MsPerSec \div 2), Lifetime}

\* The authorization header of a management-app request, as the handlers
\* decode it: absent, without a second segment, with a payload that carries
\* no sub, or with sub and an optional email ("" when the claim is absent).
AuthHeaders ==
    {[kind |-> "absent", sub |-> "", email |-> ""],
     [kind |-> "nodot", sub |-> "", email |-> ""],
     [kind |-> "jwt", sub |-> "", email |-> ""],
     [kind |-> "jwt", sub |-> "u1", email |-> "a@b.com"],
     [kind |-> "jwt", sub |-> "u2", email |-> ""]}

NoAuth == [kind |-> "absent", sub |-> "", email |-> ""]

\* Bodies of POST /api/projects/create: the project name and the requested
\* subdomain, sequences of characters (<<>> when absent)
CreateBodies ==
    {[name |-> <<>>, subdomain |-> <<>>],
     [name |-> <<"A">>, subdomain |-> <<>>],
     [name |-> <<"B", " ", "!">>, subdomain |-> <<>>],
     [name |-> <<"B">>, subdomain |-> <<"a">>]}

----------------------------------------------------------------------------
(* jsonwebtoken *)

Mac(key, header, payload) == [key |-> key, header |-> header, payload |-> payload]

Seconds(ms) == ms \div MsPerSec

\* jwt.sign that loses the caller's email claim
jwtSignFixedEmail(payload, secret, t) ==
    LET claims == [tenant_id |-> payload.tenant_id,
                   user_id |-> payload.user_id,
                   email |-> DefaultEmail,
                   iat |-> Seconds(t),
                   exp |-> Seconds(t) + ExpiresInSec,
                   aud |-> Audience,
                   iss |-> Issuer]
    IN [parts |-> 3, json |-> TRUE, header |-> Alg, payload |-> claims,
        sig |-> Mac(secret, Alg, claims)]

\* jwt.sign(payload, secret, {expiresIn: '15m', issuer, audience})
jwtSign(payload, secret, t) ==
    LET claims == [tenant_id |-> payload.tenant_id,
                   user_id |-> payload.user_id,
                   email |-> payload.email,
                   iat |-> Seconds(t),
                   exp |-> Seconds(t) + ExpiresInSec,
                   aud |-> Audience,
                   iss |-> Issuer]
    IN [parts |-> 3, json |-> TRUE, header |-> Alg, payload |-> claims,
        sig |-> Mac(secret, Alg, claims)]

\* jwt.verify that lets the token live through its last second
jwtVerifyErrorLate(token, secret, t) ==
    IF token.parts # 3 \/ ~token.json THEN "JsonWebTokenError"
    ELSE IF token.sig # Mac(secret, token.header, token.payload) THEN "JsonWebTokenError"
    ELSE IF token.payload.exp # Undefined /\ Seconds(t) > token.payload.exp
         THEN "TokenExpiredError"
    ELSE IF token.payload.aud # Audience THEN "JsonWebTokenError"
    ELSE IF token.payload.iss # Issuer THEN "JsonWebTokenError"
    ELSE ""

\* jwt.verify that looks at audience and issuer before the expiry
jwtVerifyErrorAudFirst(token, secret, t) ==
    IF token.parts # 3 \/ ~token.json THEN "JsonWebTokenError"
    ELSE IF token.sig # Mac(secret, token.header, token.payload) THEN "JsonWebTokenError"
    ELSE IF token.payload.aud # Audience THEN "JsonWebTokenError"
    ELSE IF token.payload.iss # Issuer THEN "JsonWebTokenError"
    ELSE IF token.payload.exp # Undefined /\ Seconds(t) >= token.payload.exp
         THEN "TokenExpiredError"
    ELSE ""

\* jwt.verify called without the issuer option
jwtVerifyErrorNoIssuer(token, secret, t) ==
    IF token.parts # 3 \/ ~token.json THEN "JsonWebTokenError"
    ELSE IF token.sig # Mac(secret, token.header, token.payload) THEN "JsonWebTokenError"
    ELSE IF token.payload.exp # Undefined /\ Seconds(t) >= token.payload.exp
         THEN "TokenExpiredError"
    ELSE IF token.payload.aud # Audience THEN "JsonWebTokenError"
    ELSE ""

\* jwt.verify(token, secret, {issuer, audience}): the error class, "" if none
jwtVerifyError(token, secret, t) ==
    IF token.parts # 3 \/ ~token.json THEN "JsonWebTokenError"
    ELSE IF token.sig # Mac(secret, token.header, token.payload) THEN "JsonWebTokenError"
    ELSE IF token.payload.exp # Undefined /\ Seconds(t) >= token.payload.exp
         THEN "TokenExpiredError"
    ELSE IF token.payload.aud # Audience THEN "JsonWebTokenError"
    ELSE IF token.payload.iss # Issuer THEN "JsonWebTokenError"
    ELSE ""

----------------------------------------------------------------------------
(* lib/sso-tokens *)

\* generateSSOToken signing under a built-in key when SSO_SECRET is not set
generateSSOTokenDefaultSecret(payload, secret, t) ==
    [threw |-> FALSE,
     token |-> {jwtSign(payload, IF secret = "" THEN OtherSecret ELSE secret, t)}]

\* generateSSOToken: throws when SSO_SECRET is not configured
generateSSOToken(payload, secret, t) ==
    IF secret = ""
    THEN [threw |-> TRUE, token |-> {}]
    ELSE [threw |-> FALSE, token |-> {jwtSign(payload, secret, t)}]

\* validateSSOToken that keeps a list of the tokens refused over their tenant
\* or their grant
validateSSOTokenRevoked(token, secret, t) ==
    IF secret = ""
    THEN [threw |-> TRUE, payload |-> {}, log |-> ""]
    ELSE IF \E o \in outcomes : o.token = token /\ o.outcome \in {"tenant", "grant"}
    THEN [threw |-> FALSE, payload |-> {}, log |-> "Invalid SSO token"]
    ELSE IF jwtVerifyError(token, secret, t) = ""
    THEN [threw |-> FALSE, payload |-> {token.payload}, log |-> ""]
    ELSE IF jwtVerifyError(token, secret, t) = "TokenExpiredError"
    THEN [threw |-> FALSE, payload |-> {}, log |-> "SSO token expired"]
    ELSE [threw |-> FALSE, payload |-> {}, log |-> "Invalid SSO token"]

\* validateSSOToken that refuses a token already redeemed
validateSSOTokenSingleUse(token, secret, t) ==
    IF secret = ""
    THEN [threw |-> TRUE, payload |-> {}, log |-> ""]
    ELSE IF [token |-> token, outcome |-> "redeemed"] \in outcomes
    THEN [threw |-> FALSE, payload |-> {}, log |-> "Invalid SSO token"]
    ELSE IF jwtVerifyError(token, secret, t) = ""
    THEN [threw |-> FALSE, payload |-> {token.payload}, log |-> ""]
    ELSE IF jwtVerifyError(token, secret, t) = "TokenExpiredError"
    THEN [threw |-> FALSE, payload |-> {}, log |-> "SSO token expired"]
    ELSE [threw |-> FALSE, payload |-> {}, log |-> "Invalid SSO token"]

\* validateSSOToken without its try/catch
validateSSOTokenNoCatch(token, secret, t) ==
    IF secret = ""
    THEN [threw |-> TRUE, payload |-> {}, log |-> ""]
    ELSE IF jwtVerifyError(token, secret, t) = ""
    THEN [threw |-> FALSE, payload |-> {token.payload}, log |-> ""]
    ELSE [threw |-> TRUE, payload |-> {}, log |-> ""]

\* validateSSOToken: the payload, or null with the line it logs
validateSSOToken(token, secret, t) ==
    IF secret = ""
    THEN [threw |-> TRUE, payload |-> {}, log |-> ""]
    ELSE LET err == jwtVerifyError(token, secret, t)
         IN IF err = ""
            THEN [threw |-> FALSE, payload |-> {token.payload}, log |-> ""]
            ELSE IF err = "TokenExpiredError"
            THEN [threw |-> FALSE, payload |-> {}, log |-> "SSO token expired"]
            ELSE [threw |-> FALSE, payload |-> {}, log |-> "Invalid SSO token"]

\* generateAccessURL: the token appended to the deployment URL
generateAccessURL(tenantId, userId, email, secret, t) ==
    generateSSOToken([tenant_id |-> tenantId, user_id |-> userId, email |-> email],
                     secret, t)

\* jwt.decode(token): null unless the string has three segments; the payload
\* segment is parsed as JSON, which throws when it is none; no key is involved
jwtDecode(token) ==
    IF token.parts # 3 THEN [threw |-> FALSE, payload |-> {}]
    ELSE IF ~token.json THEN [threw |-> TRUE, payload |-> {}]
    ELSE [threw |-> FALSE, payload |-> {token.payload}]

\* !decoded || !decoded.exp
NoExp(decoded) == \A p \in decoded.payload : p.exp = Undefined \/ p.exp = 0

\* isTokenExpired that takes a token without expiry for a live one
isTokenExpiredOpen(token, t) ==
    LET decoded == jwtDecode(token)
    IN IF decoded.threw THEN TRUE
       ELSE IF NoExp(decoded) THEN FALSE
       ELSE \E p \in decoded.payload : t >= p.exp * MsPerSec

\* isTokenExpired that takes a token for a live one at the very instant of
\* its expiry
isTokenExpiredStrict(token, t) ==
    LET decoded == jwtDecode(token)
    IN IF decoded.threw THEN TRUE
       ELSE IF NoExp(decoded) THEN TRUE
       ELSE \E p \in decoded.payload : t > p.exp * MsPerSec

\* isTokenExpired: Date.now() >= decoded.exp * 1000, true when in doubt
isTokenExpired(token, t) ==
    LET decoded == jwtDecode(token)
    IN IF decoded.threw THEN TRUE
       ELSE IF NoExp(decoded) THEN TRUE
       ELSE \E p \in decoded.payload : t >= p.exp * MsPerSec

\* getTokenExpiration: new Date(decoded.exp * 1000) or null, as a set
getTokenExpiration(token) ==
    LET decoded == jwtDecode(token)
    IN IF decoded.threw THEN {}
       ELSE IF NoExp(decoded) THEN {}
       ELSE {p.exp * MsPerSec : p \in decoded.payload}

----------------------------------------------------------------------------
(* The management store *)

\* .from('tenants').select().eq('id', id)
TenantById(id) == {r \in tenants : r.id = id}

\* .from('tenants').select('id').eq('subdomain', s)
TenantBySubdomain(s) == {r \in tenants : r.subdomain = s}

\* The grant query without its tenant filter
GrantOfAnyTenant(t, u) == {r \in tenant_users : r.user_id = u}

\* .from('tenant_users').select('role').eq('tenant_id', t).eq('user_id', u)
GrantOf(t, u) == {r \in tenant_users : r.tenant_id = t /\ r.user_id = u}

\* .from('tenants').select('id, status').eq('subdomain', s), any status
TenantBySubdomainAnyStatus(s) == {r \in tenants : r.subdomain = s}

\* .from('tenants').select('id, status').eq('subdomain', s).eq('status', 'active')
ActiveTenantBySubdomain(s) == {r \in tenants : r.subdomain = s /\ r.status = "active"}

\* .from('tenants').select('id, status').eq('custom_domain', d).eq('status', 'active')
ActiveTenantByCustomDomain(d) ==
    {r \in tenants : r.custom_domain = d /\ r.status = "active"}

\* .from('tenants').insert(row): subdomain is UNIQUE
InsertTenantNoUnique(rows, row) == [error |-> FALSE, rows |-> rows \cup {row}]

InsertTenant(rows, row) ==
    IF \E r \in rows : r.subdomain = row.subdomain
    THEN [error |-> TRUE, rows |-> rows]
    ELSE [error |-> FALSE, rows |-> rows \cup {row}]

\* .from('tenant_users').insert(g): tenant_id REFERENCES tenants(id),
\* UNIQUE(tenant_id, user_id); the rows of tenant_users afterwards
InsertGrant(grants, rows, g) ==
    IF \/ \A r \in rows : r.id # g.tenant_id
       \/ \E x \in grants : x.tenant_id = g.tenant_id /\ x.user_id = g.user_id
    THEN grants
    ELSE grants \cup {g}

\* The grants of a deleted tenant left in place
GrantsKept(grants, id) == grants

\* ON DELETE CASCADE: the rows of tenant_users after tenant id is deleted
GrantsAfterDelete(grants, id) == {g \in grants : g.tenant_id # id}

\* .single(): an error unless exactly one row matches
SingleError(rows) == Cardinality(rows) # 1

----------------------------------------------------------------------------
(* Requests and responses *)

NoResp == [status |-> 0, error |-> "", token |-> {}, body |-> {},
           log |-> "", reads |-> <<>>]

ErrorResp(code, msg) == [NoResp EXCEPT !.status = code, !.error = msg]

NoReq == [auth |-> NoAuth, tenant_id |-> "", subdomain |-> <<>>, token |-> {},
          api_key |-> {}, domain |-> <<>>]

IdleRd == [pc |-> "idle", token |-> {}, payload |-> {}, tenant |-> {}]

NoOut == [op |-> "none", req |-> NoReq, resp |-> NoResp]

\* The exchange a handler hands to its caller
Answer(op, req, resp) == [op |-> op, req |-> req, resp |-> resp]

\* The application takes the next event once the last response has gone out
Ready == out = NoOut

Tokens == {m.token : m \in minted}

\* The record kept of a mint
Minted(token, claims, rows) ==
    {[token |-> tok, claims |-> claims, at |-> now,
      status |-> {r.status : r \in {x \in rows : x.id = claims.tenant_id}},
      plan |-> {r.plan : r \in {x \in rows : x.id = claims.tenant_id}}]
        : tok \in token}

----------------------------------------------------------------------------
\* One tenant provisioned with its owner and a custom domain, in any status
\* billing has left it in
Deployed ==
    /\ now = 0
    /\ ssoSecret \in Secrets
    /\ \E st \in Statuses :
        tenants = {[id |-> "t1", subdomain |-> <<"a">>, custom_domain |-> <<"d">>,
                    owner_id |-> "u1", status |-> st, plan |-> "free"]}
    /\ tenant_users = {[tenant_id |-> "t1", user_id |-> "u1", role |-> "owner"]}
    /\ minted = {}
    /\ rd = IdleRd
    /\ cr = EmptyBag
    /\ out = NoOut
    /\ envOps = 0
    /\ outcomes = {}

\* The deployment with its internal key configured
Init == Deployed /\ internalApiKey = "ik"

\* The deployment with or without its internal key
InitLookup == Deployed /\ internalApiKey \in InternalApiKeys

\* The wall clock advances
Tick ==
    /\ Ready
    /\ \E t \in Instants : t > now /\ now' = t
    /\ UNCHANGED <<ssoSecret, tenants, tenant_users, minted, rd, out, envOps, outcomes, cr, internalApiKey>>

----------------------------------------------------------------------------
(* POST /api/sso/generate *)

\* Lines 78-82: what the handler gives to generateSSOToken
SsoGenerateClaims(auth, tenant_id) ==
    [tenant_id |-> tenant_id, user_id |-> auth.sub,
     email |-> IF auth.email = "" THEN DefaultEmail ELSE auth.email]

\* The handler refusing to mint for a tenant that is not active
SsoGenerateRespActiveOnly(auth, tenant_id) ==
    IF auth.kind = "absent" THEN ErrorResp(401, "Unauthorized")
    ELSE IF auth.kind = "nodot" THEN ErrorResp(401, "Invalid token format")
    ELSE IF auth.sub = "" THEN ErrorResp(401, "Invalid token")
    ELSE IF tenant_id = "" THEN ErrorResp(400, "tenant_id required")
    ELSE IF SingleError(GrantOf(tenant_id, auth.sub))
    THEN [ErrorResp(403, "Access denied") EXCEPT !.reads = <<"tenant_users">>]
    ELSE IF \A r \in TenantById(tenant_id) : r.status # "active"
    THEN [ErrorResp(403, "Access denied") EXCEPT !.reads = <<"tenant_users">>]
    ELSE LET r == generateSSOToken(SsoGenerateClaims(auth, tenant_id), ssoSecret, now)
         IN IF r.threw
            THEN [ErrorResp(500, "Failed to generate token")
                     EXCEPT !.reads = <<"tenant_users">>]
            ELSE [NoResp EXCEPT !.status = 200, !.token = r.token,
                                !.reads = <<"tenant_users">>]

\* Lines 17-98: the response, from the request, the grants and the secret
SsoGenerateResp(auth, tenant_id) ==
    IF auth.kind = "absent" THEN ErrorResp(401, "Unauthorized")
    ELSE IF auth.kind = "nodot" THEN ErrorResp(401, "Invalid token format")
    ELSE IF auth.sub = "" THEN ErrorResp(401, "Invalid token")
    ELSE IF tenant_id = "" THEN ErrorResp(400, "tenant_id required")
    ELSE IF SingleError(GrantOf(tenant_id, auth.sub))
    THEN [ErrorResp(403, "Access denied") EXCEPT !.reads = <<"tenant_users">>]
    ELSE LET r == generateSSOToken(SsoGenerateClaims(auth, tenant_id), ssoSecret, now)
         IN IF r.threw
            THEN [ErrorResp(500, "Failed to generate token")
                     EXCEPT !.reads = <<"tenant_users">>]
            ELSE [NoResp EXCEPT !.status = 200, !.token = r.token,
                                !.reads = <<"tenant_users">>]

SsoGeneratePOST ==
    /\ Ready
    /\ \E auth \in AuthHeaders :
        \E tenant_id \in IF auth.sub = "" THEN {""} ELSE TenantIds \cup {""} :
            LET resp == SsoGenerateResp(auth, tenant_id)
                mint == Minted(resp.token, SsoGenerateClaims(auth, tenant_id), tenants)
            IN /\ Cardinality(minted \cup mint) <= MaxMinted
               /\ out' = Answer("generate",
                                [NoReq EXCEPT !.auth = auth, !.tenant_id = tenant_id], resp)
               /\ minted' = minted \cup mint
    /\ UNCHANGED <<now, ssoSecret, tenants, tenant_users, rd, envOps, outcomes, cr, internalApiKey>>

----------------------------------------------------------------------------
(* POST /api/sso/validate *)

\* A token re-signed under another key, a token whose payload was changed
\* after signing, a token of another issuer or audience under the same key,
\* and a token cut after its second segment.
Resigned(tok, key) == [tok EXCEPT !.sig = Mac(key, tok.header, tok.payload)]

Tampered(tok) ==
    {Resigned(tok, OtherSecret),
     [tok EXCEPT !.payload.tenant_id = CHOOSE t \in TenantIds : t # tok.payload.tenant_id],
     Resigned([tok EXCEPT !.payload.iss = "other-issuer"], tok.sig.key),
     Resigned([tok EXCEPT !.payload.aud = "other-audience"], tok.sig.key),
     [tok EXCEPT !.parts = 2]}

\* A string that is no JWT
Garbage == [jwtSign([tenant_id |-> "", user_id |-> "", email |-> ""], OtherSecret, 0)
               EXCEPT !.parts = 1]

\* Tokens made by someone else for the first tenant and its owner: signed
\* under another key, and under the empty key
Forged ==
    {jwtSign([tenant_id |-> "t1", user_id |-> "u1", email |-> DefaultEmail], k, 0)
        : k \in {OtherSecret, ""}}

RedeemTokens ==
    Tokens \cup UNION {Tampered(tok) : tok \in Tokens} \cup {Garbage} \cup Forged

\* A token without an exp claim, and one whose payload segment is no JSON
Unreadable ==
    UNION {{[tok EXCEPT !.payload.exp = Undefined], [tok EXCEPT !.json = FALSE]}
              : tok \in Forged}

PeekTokens == RedeemTokens \cup Unreadable

\* The request body: not JSON, JSON without a token, or JSON with a token
RedeemBodies ==
    {[kind |-> "badjson", token |-> {}], [kind |-> "notoken", token |-> {}]}
    \cup {[kind |-> "token", token |-> {tok}] : tok \in RedeemTokens}

ValidateAnswer(token, resp) == Answer("validate", [NoReq EXCEPT !.token = token], resp)

\* Lines 97-103: the catch block
Caught == [ErrorResp(500, "Validation failed") EXCEPT !.log = "SSO validation error"]

\* Lines 30-49: parse the body and validate the JWT
SsoValidateStart ==
    /\ Ready
    /\ rd.pc = "idle"
    /\ \E body \in RedeemBodies :
        IF body.kind = "badjson"
        THEN /\ out' = ValidateAnswer({}, Caught)
             /\ rd' = rd
        ELSE IF body.kind = "notoken"
        THEN /\ out' = ValidateAnswer({}, ErrorResp(400, "Token required"))
             /\ rd' = rd
        ELSE LET tok == CHOOSE x \in body.token : TRUE
                 v == validateSSOToken(tok, ssoSecret, now)
             IN IF v.threw
                THEN /\ out' = ValidateAnswer(body.token, Caught)
                     /\ rd' = rd
                ELSE IF v.payload = {}
                THEN /\ out' = ValidateAnswer(body.token,
                                   [ErrorResp(401, "Invalid or expired token")
                                       EXCEPT !.log = v.log])
                     /\ rd' = rd
                ELSE /\ rd' = [IdleRd EXCEPT !.pc = "verified", !.token = body.token,
                                             !.payload = v.payload]
                     /\ out' = out
    /\ UNCHANGED <<now, ssoSecret, tenants, tenant_users, minted, envOps, outcomes, cr, internalApiKey>>

\* Lines 59-71: the tenant row decides; status 0 lets the request go on
TenantGateSuspendedOnly(tenant) ==
    IF SingleError(tenant) THEN ErrorResp(404, "Tenant not found")
    ELSE LET row == CHOOSE x \in tenant : TRUE
         IN IF row.status = "suspended"
            THEN ErrorResp(403, "Tenant is " \o row.status)
            ELSE NoResp

TenantGateAnyStatus(tenant) ==
    IF SingleError(tenant) THEN ErrorResp(404, "Tenant not found") ELSE NoResp

\* The tenant gate that also holds the status seen at mint time against the token
TenantGateRemembered(tenant) ==
    IF SingleError(tenant) THEN ErrorResp(404, "Tenant not found")
    ELSE LET row == CHOOSE x \in tenant : TRUE
             before == UNION {m.status : m \in {x \in minted : x.claims.tenant_id = row.id}}
         IN IF row.status # "active" \/ before \ {"active"} # {}
            THEN ErrorResp(403, "Tenant is " \o row.status)
            ELSE NoResp

TenantGate(tenant) ==
    IF SingleError(tenant) THEN ErrorResp(404, "Tenant not found")
    ELSE LET row == CHOOSE x \in tenant : TRUE
         IN IF row.status # "active"
            THEN ErrorResp(403, "Tenant is " \o row.status)
            ELSE NoResp

\* The validated payload with the role and the plan a new project starts with
ValidatedAsCreated(payload, tenant, role) ==
    [NoResp EXCEPT !.status = 200,
                   !.body = {[tenant_id |-> payload.tenant_id,
                              user_id |-> payload.user_id,
                              email |-> payload.email,
                              role |-> "owner",
                              plan |-> "free"]}]

\* Lines 81-95: the grant row decides; the validated payload on success
Validated(payload, tenant, role) ==
    [NoResp EXCEPT !.status = 200,
                   !.body = {[tenant_id |-> payload.tenant_id,
                              user_id |-> payload.user_id,
                              email |-> payload.email,
                              role |-> role,
                              plan |-> tenant.plan]}]

AccessGateOpen(payload, tenant, tenantUser) ==
    Validated(payload, tenant,
              IF tenantUser = {} THEN "owner" ELSE (CHOOSE x \in tenantUser : TRUE).role)

AccessGate(payload, tenant, tenantUser) ==
    IF SingleError(tenantUser)
    THEN ErrorResp(403, "User does not have access to this tenant")
    ELSE Validated(payload, tenant, (CHOOSE x \in tenantUser : TRUE).role)

\* The tenant and the grant fetched together, the grant judged first
SsoValidateTenantEager ==
    /\ Ready
    /\ rd.pc = "verified"
    /\ LET payload == CHOOSE x \in rd.payload : TRUE
           tenant == TenantById(payload.tenant_id)
           tenantUser == GrantOf(payload.tenant_id, payload.user_id)
           reads == <<"tenants", "tenant_users">>
       IN IF SingleError(tenantUser)
          THEN /\ out' = Answer("validate", [NoReq EXCEPT !.token = rd.token],
                             [ErrorResp(403, "User does not have access to this tenant")
                                 EXCEPT !.reads = reads])
               /\ rd' = IdleRd
          ELSE IF TenantGate(tenant).status # 0
          THEN /\ out' = Answer("validate", [NoReq EXCEPT !.token = rd.token],
                             [TenantGate(tenant) EXCEPT !.reads = reads])
               /\ rd' = IdleRd
          ELSE /\ rd' = [rd EXCEPT !.pc = "tenantOk", !.tenant = tenant]
               /\ out' = out
    /\ UNCHANGED <<now, ssoSecret, tenants, tenant_users, minted, envOps, outcomes, cr, internalApiKey>>

\* Lines 51-71: verify tenant is active
SsoValidateTenant ==
    /\ Ready
    /\ rd.pc = "verified"
    /\ LET payload == CHOOSE x \in rd.payload : TRUE
           tenant == TenantById(payload.tenant_id)
           gate == TenantGate(tenant)
       IN IF gate.status # 0
          THEN /\ out' = ValidateAnswer(rd.token, [gate EXCEPT !.reads = <<"tenants">>])
               /\ rd' = IdleRd
          ELSE /\ rd' = [rd EXCEPT !.pc = "tenantOk", !.tenant = tenant]
               /\ out' = out
    /\ UNCHANGED <<now, ssoSecret, tenants, tenant_users, minted, envOps, outcomes, cr, internalApiKey>>

\* The grant step that puts the owner's grant back when it finds it missing
SsoValidateAccessRepair ==
    /\ Ready
    /\ rd.pc = "tenantOk"
    /\ LET payload == CHOOSE x \in rd.payload : TRUE
           tenant == CHOOSE x \in rd.tenant : TRUE
           tenantUser == GrantOf(payload.tenant_id, payload.user_id)
       IN /\ out' = ValidateAnswer(rd.token,
                        [AccessGate(payload, tenant, tenantUser)
                            EXCEPT !.reads = <<"tenants", "tenant_users">>])
          /\ tenant_users' =
                IF tenantUser = {} /\ tenant.owner_id = payload.user_id
                THEN tenant_users \cup {[tenant_id |-> tenant.id,
                                         user_id |-> payload.user_id, role |-> "owner"]}
                ELSE tenant_users
    /\ rd' = IdleRd
    /\ UNCHANGED <<now, ssoSecret, tenants, minted, envOps, outcomes, cr, internalApiKey>>

\* Lines 73-95: verify user has access to tenant, return validated payload
SsoValidateAccess ==
    /\ Ready
    /\ rd.pc = "tenantOk"
    /\ LET payload == CHOOSE x \in rd.payload : TRUE
           tenant == CHOOSE x \in rd.tenant : TRUE
           tenantUser == GrantOf(payload.tenant_id, payload.user_id)
       IN out' = ValidateAnswer(rd.token,
                     [AccessGate(payload, tenant, tenantUser)
                         EXCEPT !.reads = <<"tenants", "tenant_users">>])
    /\ rd' = IdleRd
    /\ UNCHANGED <<now, ssoSecret, tenants, tenant_users, minted, envOps, outcomes, cr, internalApiKey>>

----------------------------------------------------------------------------
(* POST /api/projects/create *)

Lower(c) == CASE c = "A" -> "a" [] c = "B" -> "b" [] OTHER -> c

AlNum == {"a", "b"}

\* .replace(/[^a-z0-9]/g, '-')
RECURSIVE Dashed(_)
Dashed(s) ==
    IF s = <<>> THEN <<>>
    ELSE <<IF Head(s) \in AlNum THEN Head(s) ELSE "-">> \o Dashed(Tail(s))

\* .replace(/-+/g, '-')
RECURSIVE Collapsed(_)
Collapsed(s) ==
    IF Len(s) < 2 THEN s
    ELSE IF s[1] = "-" /\ s[2] = "-" THEN Collapsed(Tail(s))
    ELSE <<s[1]>> \o Collapsed(Tail(s))

\* .replace(/^-|-$/g, '')
Trimmed(s) ==
    LET a == IF s # <<>> /\ Head(s) = "-" THEN Tail(s) ELSE s
    IN IF a # <<>> /\ a[Len(a)] = "-" THEN SubSeq(a, 1, Len(a) - 1) ELSE a

Slug(name) == Trimmed(Collapsed(Dashed([i \in 1..Len(name) |-> Lower(name[i])])))

\* The locals of a request that has passed the subdomain check: where it
\* is, the user, the subdomain, the tenant row it got back from its insert,
\* and the grant row its second insert added, which the handler never looks at
CreateLocals(pc, auth, subdomain, tenant) ==
    [pc |-> pc, auth |-> auth, subdomain |-> subdomain, tenant |-> tenant,
     grant |-> {}]

CreateAnswer(c, resp) ==
    Answer("create",
           [NoReq EXCEPT !.auth = c.auth, !.subdomain = c.subdomain,
                         !.tenant_id = IF c.tenant = {} THEN ""
                                       ELSE (CHOOSE r \in c.tenant : TRUE).id],
           resp)

\* gen_random_uuid(): an id no tenant has or had
FreshIds ==
    TenantIds \ ({r.id : r \in tenants}
                 \cup {m.claims.tenant_id : m \in minted}
                 \cup UNION {{r.id : r \in c.tenant} : c \in BagToSet(cr)})

\* Lines 32-97: authenticate, read the body, check the subdomain is available
ProjectsCreatePOST ==
    /\ Ready
    /\ \E auth \in AuthHeaders :
        LET reject(sub, resp) ==
                /\ out' = CreateAnswer(CreateLocals("", auth, sub, {}), resp)
                /\ cr' = cr
        IN IF auth.kind = "absent" THEN reject(<<>>, ErrorResp(401, "Unauthorized"))
           ELSE IF auth.kind = "nodot"
           THEN reject(<<>>, ErrorResp(401, "Invalid token format"))
           ELSE IF auth.sub = "" THEN reject(<<>>, ErrorResp(401, "Invalid token"))
           ELSE \E body \in CreateBodies :
                LET name == body.name
                    subdomain == IF body.subdomain # <<>> THEN body.subdomain
                                 ELSE Slug(name)
                IN IF name = <<>>
                   THEN reject(<<>>, ErrorResp(400, "Project name is required"))
                   ELSE IF ~SingleError(TenantBySubdomain(subdomain))
                   THEN reject(subdomain, ErrorResp(409, "Subdomain already taken"))
                   ELSE /\ BagCardinality(cr) < MaxCreates
                        /\ cr' = cr (+) SetToBag({CreateLocals("checked", auth, subdomain, {})})
                        /\ out' = out
    /\ UNCHANGED <<now, ssoSecret, tenants, tenant_users, minted, rd, envOps, outcomes, internalApiKey>>

\* Lines 99-118: create the tenant record
ProjectsCreateTenant ==
    /\ Ready
    /\ \E c \in BagToSet(cr), id \in FreshIds :
        /\ c.pc = "checked"
        /\ LET tenant == [id |-> id, subdomain |-> c.subdomain,
                          custom_domain |-> <<>>, owner_id |-> c.auth.sub,
                          status |-> "active", plan |-> "free"]
               ins == InsertTenant(tenants, tenant)
           IN IF ins.error
              THEN /\ out' = CreateAnswer(c, ErrorResp(500, "Failed to create project"))
                   /\ cr' = cr (-) SetToBag({c})
                   /\ tenants' = tenants
              ELSE /\ tenants' = ins.rows
                   /\ cr' = (cr (-) SetToBag({c}))
                               (+) SetToBag({[c EXCEPT !.pc = "inserted", !.tenant = {tenant}]})
                   /\ out' = out
    /\ UNCHANGED <<now, ssoSecret, tenant_users, minted, rd, envOps, outcomes, internalApiKey>>

\* Lines 120-127: create the tenant-user relationship; the result is not looked at
ProjectsCreateGrant ==
    /\ Ready
    /\ \E c \in BagToSet(cr) :
        /\ c.pc = "inserted"
        /\ LET tenant == CHOOSE r \in c.tenant : TRUE
               after == InsertGrant(tenant_users, tenants,
                                    [tenant_id |-> tenant.id, user_id |-> c.auth.sub,
                                     role |-> "owner"])
           IN /\ tenant_users' = after
              /\ cr' = (cr (-) SetToBag({c}))
                          (+) SetToBag({[c EXCEPT !.pc = "granted",
                                                  !.grant = after \ tenant_users]})
    /\ UNCHANGED <<now, ssoSecret, tenants, minted, rd, out, envOps, outcomes, internalApiKey>>

\* Lines 129-164: initializeTenantData; if it throws, delete the tenant record
\* and answer 500; else generateAccessURL and answer 201
ProjectsCreateFinish ==
    /\ Ready
    /\ \E c \in BagToSet(cr), initFails \in BOOLEAN :
        /\ c.pc = "granted"
        /\ cr' = cr (-) SetToBag({c})
        /\ LET tenant == CHOOSE r \in c.tenant : TRUE
               userEmail == IF c.auth.email = "" THEN DefaultEmail ELSE c.auth.email
               r == generateAccessURL(tenant.id, c.auth.sub, userEmail, ssoSecret, now)
               mint == Minted(r.token,
                              [tenant_id |-> tenant.id, user_id |-> c.auth.sub,
                               email |-> userEmail],
                              tenants)
           IN IF initFails
              THEN /\ tenants' = {x \in tenants : x.id # tenant.id}
                   /\ tenant_users' = GrantsAfterDelete(tenant_users, tenant.id)
                   /\ minted' = minted
                   /\ out' = CreateAnswer(c,
                                ErrorResp(500, "Failed to initialize project data"))
              ELSE /\ Cardinality(minted \cup mint) <= MaxMinted
                   /\ minted' = minted \cup mint
                   /\ UNCHANGED <<tenants, tenant_users>>
                   /\ out' = CreateAnswer(c,
                                IF r.threw
                                THEN ErrorResp(500, "Internal server error")
                                ELSE [NoResp EXCEPT !.status = 201,
                                                    !.body = {tenant},
                                                    !.token = r.token])
    /\ UNCHANGED <<now, ssoSecret, rd, envOps, outcomes, internalApiKey>>

----------------------------------------------------------------------------
(* GET /api/tenants/by-subdomain and GET /api/tenants/by-domain *)

\* The handlers' common shape: the key check, the parameter check, the
\* answer from the rows the query returned
TenantLookupResp(apiKey, param, required, rows) ==
    IF internalApiKey # "" /\ apiKey # {internalApiKey}
    THEN ErrorResp(401, "Unauthorized")
    ELSE IF param = <<>> THEN ErrorResp(400, required)
    ELSE IF SingleError(rows)
    THEN [ErrorResp(404, "Tenant not found") EXCEPT !.reads = <<"tenants">>]
    ELSE [NoResp EXCEPT !.status = 200, !.reads = <<"tenants">>,
                        !.body = {[tenant_id |-> r.id] : r \in rows}]

TenantsBySubdomainGET ==
    /\ Ready
    /\ \E apiKey \in ApiKeyHeaders, subdomain \in LookupParams :
        out' = Answer("by-subdomain",
                      [NoReq EXCEPT !.api_key = apiKey, !.subdomain = subdomain],
                      TenantLookupResp(apiKey, subdomain, "Subdomain parameter required",
                                       ActiveTenantBySubdomain(subdomain)))
    /\ UNCHANGED <<now, ssoSecret, tenants, tenant_users, minted, rd, envOps, outcomes, cr, internalApiKey>>

TenantsByCustomDomainGET ==
    /\ Ready
    /\ \E apiKey \in ApiKeyHeaders, domain \in LookupParams :
        out' = Answer("by-domain",
                      [NoReq EXCEPT !.api_key = apiKey, !.domain = domain],
                      TenantLookupResp(apiKey, domain, "Domain parameter required",
                                       ActiveTenantByCustomDomain(domain)))
    /\ UNCHANGED <<now, ssoSecret, tenants, tenant_users, minted, rd, envOps, outcomes, cr, internalApiKey>>

----------------------------------------------------------------------------
(* The token helpers, called by whoever holds a token *)

PeekAnswer(op, tok, result) ==
    Answer(op, [NoReq EXCEPT !.token = {tok}], [NoResp EXCEPT !.body = {result}])

IsTokenExpiredCall ==
    /\ Ready
    /\ \E tok \in PeekTokens :
        out' = PeekAnswer("isTokenExpired", tok, [expired |-> isTokenExpired(tok, now)])
    /\ UNCHANGED <<now, ssoSecret, tenants, tenant_users, minted, rd, envOps, outcomes, cr, internalApiKey>>

GetTokenExpirationCall ==
    /\ Ready
    /\ \E tok \in PeekTokens :
        out' = PeekAnswer("getTokenExpiration", tok, [date |-> getTokenExpiration(tok)])
    /\ UNCHANGED <<now, ssoSecret, tenants, tenant_users, minted, rd, envOps, outcomes, cr, internalApiKey>>

\* How a redemption ended, as far as the life of its token goes
Outcome(resp) ==
    IF resp.status = 200 THEN "redeemed"
    ELSE IF resp.status = 401 /\ resp.log = "SSO token expired" THEN "expired"
    ELSE IF resp.status = 401 THEN "invalid"
    ELSE IF resp.reads = <<"tenants">> THEN "tenant"
    ELSE IF resp.reads = <<"tenants", "tenant_users">> THEN "grant"
    ELSE "error"

\* The caller takes the response; the answer to the redemption of a minted
\* token goes on record
Deliver ==
    /\ ~Ready
    /\ out' = NoOut
    /\ outcomes' = outcomes \cup
          {[token |-> tok, outcome |-> Outcome(out.resp)]
              : tok \in IF out.op = "validate" THEN out.req.token \cap Tokens ELSE {}}
    /\ UNCHANGED <<now, ssoSecret, tenants, tenant_users, minted, rd, envOps, cr, internalApiKey>>

----------------------------------------------------------------------------
(* External collaborators that own the tenant and grant rows *)

\* Billing: update tenant status and plan
BillingUpdateTenant ==
    /\ Ready
    /\ envOps < MaxEnvOps
    /\ \E row \in tenants, s \in Statuses, p \in Plans :
        /\ <<s, p>> # <<row.status, row.plan>>
        /\ tenants' = (tenants \ {row}) \cup {[row EXCEPT !.status = s, !.plan = p]}
    /\ envOps' = envOps + 1
    /\ UNCHANGED <<now, ssoSecret, tenant_users, minted, rd, out, outcomes, cr, internalApiKey>>

\* Provisioning: remove a tenant; its grants go with it (ON DELETE CASCADE)
DeleteTenant ==
    /\ Ready
    /\ envOps < MaxEnvOps
    /\ \E row \in tenants :
        /\ tenants' = tenants \ {row}
        /\ tenant_users' = GrantsAfterDelete(tenant_users, row.id)
    /\ envOps' = envOps + 1
    /\ UNCHANGED <<now, ssoSecret, minted, rd, out, outcomes, cr, internalApiKey>>

\* Provisioning: remove a grant
RevokeGrant ==
    /\ Ready
    /\ envOps < MaxEnvOps
    /\ \E g \in tenant_users : tenant_users' = tenant_users \ {g}
    /\ envOps' = envOps + 1
    /\ UNCHANGED <<now, ssoSecret, tenants, minted, rd, out, outcomes, cr, internalApiKey>>

\* Provisioning: add a grant or change its role; (tenant_id, user_id) is unique
AssignGrant ==
    /\ Ready
    /\ envOps < MaxEnvOps
    /\ \E row \in tenants, u \in UserIds, r \in Roles :
        LET g == [tenant_id |-> row.id, user_id |-> u, role |-> r]
        IN /\ g \notin tenant_users
           /\ tenant_users' = (tenant_users \ GrantOf(row.id, u)) \cup {g}
    /\ envOps' = envOps + 1
    /\ UNCHANGED <<now, ssoSecret, tenants, minted, rd, out, outcomes, cr, internalApiKey>>

----------------------------------------------------------------------------
(* Properties *)

Validate == out.op = "validate"

\* The token of the request just answered, the payload the request in flight
\* took from its token
OutToken == CHOOSE tok \in out.req.token : TRUE
RdPayload == CHOOSE x \in rd.payload : TRUE

\* Facts of the store
Granted(t, u) == \E g \in tenant_users : g.tenant_id = t /\ g.user_id = u
ActiveTenant(id) == \E r \in tenants : r.id = id /\ r.status = "active"
InactiveTenant(id) == \E r \in tenants : r.id = id /\ r.status # "active"
NoTenant(id) == \A r \in tenants : r.id # id

\* Facts of a token at this instant
Expired(tok) == Seconds(now) >= tok.payload.exp
Signed(tok) == tok.parts = 3 /\ tok.sig = Mac(ssoSecret, tok.header, tok.payload)

BothReads == <<"tenants", "tenant_users">>

\* The step that takes a redemption request: it verifies the token at this
\* instant and either answers or goes on to the store
StartStep == rd.pc = "idle" /\ out = NoOut /\ (rd'.pc = "verified" \/ out'.op = "validate")
StartToken == rd'.token \cup out'.req.token

\* The request is turned away at verification with this line in the log
RejectedAs(line) ==
    /\ out'.op = "validate" /\ out'.resp.status = 401
    /\ out'.resp.error = "Invalid or expired token"
    /\ out'.resp.log = line /\ out'.resp.body = {}
    /\ rd' = IdleRd

\* The step that answers a redemption with the success payload
Redeems == out = NoOut /\ out'.op = "validate" /\ out'.resp.status = 200

\* C1: a redemption answers with the success payload only if the tenant row
\* it read was active and the grant row it read exists, both read from the
\* store while the redemption runs, for the tenant and the user of the token.
C1_Step ==
    /\ (rd'.pc = "verified" /\ rd.pc # "verified") =>
          rd'.payload = {tok.payload : tok \in rd'.token}
    /\ (rd'.pc = "tenantOk" /\ rd.pc # "tenantOk") =>
          /\ rd.pc = "verified"
          /\ rd'.payload = rd.payload /\ rd'.token = rd.token
          /\ ActiveTenant(RdPayload.tenant_id)
    /\ Redeems =>
          /\ rd.pc = "tenantOk"
          /\ out'.req.token = rd.token
          /\ Granted(RdPayload.tenant_id, RdPayload.user_id)
          /\ \A b \in out'.resp.body :
                b.tenant_id = RdPayload.tenant_id /\ b.user_id = RdPayload.user_id

C1_HonoredOnlyIfGrantAndActive == [][C1_Step]_vars

\* C1 witness: a redemption has been answered with the success payload
C1_Witness == Validate /\ out.resp.status = 200 /\ out.resp.body # {}

\* The step that answers a request
Answers(op) == out = NoOut /\ out'.op = op

\* C2: a token leaves POST /api/sso/generate only when the grant for the
\* tenant and the user in the token exists, and POST /api/projects/create
\* only when the request's insert of the owner grant has put the grant in
\* the store; POST /api/sso/generate without the grant answers 403 'Access
\* denied' with no token.
C2_Step ==
    /\ \A tok \in out'.resp.token :
          /\ out = NoOut => out'.op \in {"generate", "create"}
          /\ Answers("generate") =>
                /\ Granted(tok.payload.tenant_id, tok.payload.user_id)
                /\ tok.payload.user_id = out'.req.auth.sub
                /\ tok.payload.tenant_id = out'.req.tenant_id
          /\ Answers("create") =>
                \E c \in BagToSet(cr) :
                    /\ c.pc = "granted"
                    /\ c.grant = {[tenant_id |-> tok.payload.tenant_id,
                                   user_id |-> tok.payload.user_id,
                                   role |-> "owner"]}
    /\ (/\ Answers("generate")
        /\ out'.req.auth.sub # "" /\ out'.req.tenant_id # ""
        /\ ~Granted(out'.req.tenant_id, out'.req.auth.sub)) =>
          /\ out'.resp.status = 403 /\ out'.resp.error = "Access denied"
          /\ out'.resp.token = {}

C2_MintOnlyWithGrant == [][C2_Step]_vars

\* The part of C2 about POST /api/sso/generate alone
C2_GenerateStep ==
    /\ \A tok \in out'.resp.token :
          Answers("generate") =>
                /\ Granted(tok.payload.tenant_id, tok.payload.user_id)
                /\ tok.payload.user_id = out'.req.auth.sub
                /\ tok.payload.tenant_id = out'.req.tenant_id
    /\ (/\ Answers("generate")
        /\ out'.req.auth.sub # "" /\ out'.req.tenant_id # ""
        /\ ~Granted(out'.req.tenant_id, out'.req.auth.sub)) =>
          /\ out'.resp.status = 403 /\ out'.resp.error = "Access denied"
          /\ out'.resp.token = {}

C2_GenerateOnlyWithGrant == [][C2_GenerateStep]_vars

\* C2 witness: POST /api/sso/generate has minted a token
C2_Witness == out.op = "generate" /\ out.resp.status = 200 /\ out.resp.token # {}

\* POST /api/projects/create has minted a token; a mint has been refused
C2_WitnessCreate == out.op = "create" /\ out.resp.status = 201 /\ out.resp.token # {}
C2_WitnessDenied == out.op = "generate" /\ out.resp.error = "Access denied"

\* C3: a minted token redeemed at the instant it was minted is not turned
\* away at verification, is turned away afterwards only where the tenant is
\* not active or the grant is missing at that step, and the success payload
\* carries the tenant_id, user_id and email that were given to mint.
C3_RoundTrip ==
    \A m \in minted :
        (Validate /\ out.req.token = {m.token} /\ now = m.at) =>
            /\ out.resp.status \in {200, 403, 404}
            /\ (/\ ActiveTenant(m.claims.tenant_id)
                /\ Granted(m.claims.tenant_id, m.claims.user_id)) =>
                  out.resp.status = 200
            /\ out.resp.reads = <<"tenants">> => ~ActiveTenant(m.claims.tenant_id)
            /\ out.resp.reads = BothReads =>
                  (Granted(m.claims.tenant_id, m.claims.user_id) <=>
                      out.resp.status = 200)
            /\ out.resp.status = 200 =>
                  /\ out.resp.reads = BothReads
                  /\ Cardinality(out.resp.body) = 1
                  /\ \A b \in out.resp.body :
                        /\ b.tenant_id = m.claims.tenant_id
                        /\ b.user_id = m.claims.user_id
                        /\ b.email = m.claims.email

\* C3 witness: a token redeemed with success at the instant of its mint
C3_Witness ==
    /\ Validate /\ out.resp.status = 200
    /\ \E m \in minted : out.req.token = {m.token} /\ now = m.at
                         /\ m.claims.email # DefaultEmail

\* The instant jsonwebtoken stamps as iat: the mint instant cut to whole seconds
IssuedAt(m) == Seconds(m.at) * MsPerSec

\* C4 as stated: a token minted at T0 is rejected for expiry exactly at the
\* instants from T0 + 15 minutes on.
C4_Original_Step ==
    StartStep =>
        \A m \in minted : m.token \in StartToken =>
            /\ m.token.payload.exp = m.token.payload.iat + ExpiresInSec
            /\ now >= m.at + Lifetime <=> RejectedAs("SSO token expired")

C4_Original == [][C4_Original_Step]_vars

\* C4 amended: expires_at = issued_at + 15 minutes, where issued_at is the
\* mint instant T0 cut to whole seconds; the token is rejected for expiry
\* exactly at the instants from issued_at + 15 minutes on, which is every
\* instant from T0 + 15 minutes on and up to a second before.
C4_Step ==
    StartStep =>
        \A m \in minted : m.token \in StartToken =>
            /\ m.token.payload.iat = Seconds(m.at)
            /\ m.token.payload.exp = m.token.payload.iat + ExpiresInSec
            /\ now >= IssuedAt(m) + Lifetime <=> RejectedAs("SSO token expired")
            /\ now >= m.at + Lifetime => RejectedAs("SSO token expired")

C4_ExpiresFifteenMinutesAfterIssuedAt == [][C4_Step]_vars

\* C4 witness: a token rejected for expiry before T0 + 15 minutes
C4_Witness ==
    /\ Validate /\ out.resp.status = 401 /\ out.resp.log = "SSO token expired"
    /\ \E m \in minted : out.req.token = {m.token} /\ now < m.at + Lifetime

\* C5: when the tenant row the redemption reads is suspended or cancelled,
\* the redemption is answered there and then with a failure and no claims.
C5_Step ==
    (rd.pc = "verified" /\ rd' # rd /\ InactiveTenant(RdPayload.tenant_id)) =>
        /\ out'.op = "validate" /\ out'.req.token = rd.token
        /\ out'.resp.status = 403 /\ out'.resp.body = {}
        /\ rd' = IdleRd

C5_SuspendedTenantFailsClosed == [][C5_Step]_vars

\* C5 witness: a token minted while its tenant was active, still unexpired,
\* refused because the tenant is no longer active
C5_Witness ==
    /\ Validate /\ out.resp.status = 403 /\ out.resp.reads = <<"tenants">>
    /\ \E m \in minted : /\ out.req.token = {m.token}
                         /\ m.status = {"active"}
                         /\ ~Expired(m.token)
                         /\ InactiveTenant(m.claims.tenant_id)

\* C6: the redemption of a minted, unexpired token for an active tenant whose
\* grant is gone answers 403 'User does not have access to this tenant' and
\* returns no claims; no redemption succeeds without the grant.
C6_RevokedGrantDenied ==
    (Validate /\ out.req.token # {}) =>
        LET p == OutToken.payload
        IN ~Granted(p.tenant_id, p.user_id) =>
              /\ out.resp.status # 200 /\ out.resp.body = {}
              /\ (OutToken \in Tokens /\ ~Expired(OutToken) /\ ActiveTenant(p.tenant_id)) =>
                    /\ out.resp.status = 403
                    /\ out.resp.error = "User does not have access to this tenant"
                    /\ out.resp.reads = BothReads

\* C6 witness: the grant is gone, the tenant active, the token unexpired
C6_Witness ==
    /\ Validate /\ out.resp.status = 403 /\ out.resp.reads = BothReads
    /\ \E m \in minted : /\ out.req.token = {m.token}
                         /\ ~Expired(m.token)
                         /\ ActiveTenant(m.claims.tenant_id)
                         /\ ~Granted(m.claims.tenant_id, m.claims.user_id)

\* C7: the redemption verifies the token, then reads the tenant, then reads
\* the grant, and answers at the first step that fails: a token that does not
\* verify is answered 401 with no read, a missing or inactive tenant is
\* answered with only the tenant read, whatever else fails with it.
C7_Step ==
    /\ (StartStep /\ ssoSecret # "") =>
          \A tok \in StartToken :
              (tok \notin Tokens \/ Expired(tok)) =>
                  /\ out'.op = "validate" /\ out'.resp.status = 401
                  /\ out'.resp.reads = <<>> /\ rd' = IdleRd
    /\ (rd.pc = "verified" /\ rd' # rd) =>
          /\ NoTenant(RdPayload.tenant_id) =>
                out'.resp.status = 404 /\ out'.resp.reads = <<"tenants">>
          /\ InactiveTenant(RdPayload.tenant_id) =>
                out'.resp.status = 403 /\ out'.resp.reads = <<"tenants">>
          /\ ActiveTenant(RdPayload.tenant_id) => rd'.pc = "tenantOk" /\ out' = out
    /\ (rd.pc = "tenantOk" /\ rd' # rd) =>
          out'.op = "validate" /\ out'.resp.reads = BothReads
    /\ rd'.pc = "verified" => rd.pc \in {"idle", "verified"}
    /\ rd'.pc = "tenantOk" => rd.pc \in {"verified", "tenantOk"}

C7_Reads ==
    Validate =>
        /\ out.resp.status \in {400, 401, 500} => out.resp.reads = <<>>
        /\ out.resp.status = 404 => out.resp.reads = <<"tenants">>
        /\ out.resp.status = 200 => out.resp.reads = BothReads
        /\ out.resp.reads \in {<<>>, <<"tenants">>, BothReads}

C7_ChecksInOrder == []C7_Reads /\ [][C7_Step]_vars

\* C7 witness: an expired token, its tenant not active and its grant gone at
\* once; the answer is the 401 of the verification, no table read
C7_Witness ==
    /\ Validate /\ out.resp.status = 401 /\ out.resp.reads = <<>>
    /\ \E m \in minted : /\ out.req.token = {m.token}
                         /\ Expired(m.token)
                         /\ ~ActiveTenant(m.claims.tenant_id)
                         /\ ~Granted(m.claims.tenant_id, m.claims.user_id)

\* C8 as stated: a token whose expires_at is in the past fails verification
\* with ExpiredToken whether or not its signature verifies.
C8_Original_Step ==
    (StartStep /\ ssoSecret # "") =>
        \A tok \in StartToken :
            (tok.parts = 3 /\ Expired(tok)) => RejectedAs("SSO token expired")

C8_Original == [][C8_Original_Step]_vars

\* C8 amended: a token whose expires_at is in the past always fails
\* verification; with ExpiredToken when its signature verifies, with
\* InvalidSignatureOrFormat when it does not.
C8_Step ==
    (StartStep /\ ssoSecret # "") =>
        \A tok \in StartToken :
            (tok.parts = 3 /\ Expired(tok)) =>
                /\ Signed(tok) => RejectedAs("SSO token expired")
                /\ ~Signed(tok) => RejectedAs("Invalid SSO token")

C8_ExpiredTokenRejected == [][C8_Step]_vars

\* C8 witness: an expired token whose signature does not verify, turned away
\* as invalid
C8_Witness ==
    /\ Validate /\ out.resp.status = 401 /\ out.resp.log = "Invalid SSO token"
    /\ out.req.token # {}
    /\ OutToken.parts = 3 /\ Expired(OutToken) /\ ~Signed(OutToken)

\* An expired token whose signature verifies, turned away as expired
C8_WitnessSigned ==
    /\ Validate /\ out.resp.status = 401 /\ out.resp.log = "SSO token expired"
    /\ out.req.token # {} /\ Expired(OutToken) /\ Signed(OutToken)

WrongIssuerOrAudience(tok) == tok.payload.iss # Issuer \/ tok.payload.aud # Audience

\* C9 as stated: ExpiredToken exactly when expires_at has elapsed, and a token
\* under another secret, or of another issuer or audience, is always rejected
\* with InvalidSignatureOrFormat.
C9_Original_Step ==
    (StartStep /\ ssoSecret # "") =>
        \A tok \in StartToken :
            /\ (tok.parts = 3 /\ (tok.sig.key # ssoSecret \/ WrongIssuerOrAudience(tok))) =>
                  RejectedAs("Invalid SSO token")
            /\ out'.op = "validate" =>
                  (RejectedAs("SSO token expired") \/ RejectedAs("Invalid SSO token"))

C9_Original == [][C9_Original_Step]_vars

\* C9 amended: a verification failure carries one of two tags, in the line
\* validateSSOToken logs; a token under another secret is always rejected
\* with InvalidSignatureOrFormat; a token of another issuer or audience never
\* yields a claim set, and is rejected with InvalidSignatureOrFormat unless it
\* is correctly signed and expired, which is reported as ExpiredToken.
C9_Step ==
    (StartStep /\ ssoSecret # "") =>
        \A tok \in StartToken :
            /\ (tok.parts = 3 /\ tok.sig.key # ssoSecret) =>
                  RejectedAs("Invalid SSO token")
            /\ (tok.parts = 3 /\ WrongIssuerOrAudience(tok)) =>
                  IF Signed(tok) /\ Expired(tok)
                  THEN RejectedAs("SSO token expired")
                  ELSE RejectedAs("Invalid SSO token")
            /\ out'.op = "validate" =>
                  (RejectedAs("SSO token expired") \/ RejectedAs("Invalid SSO token"))
            /\ RejectedAs("SSO token expired") => Signed(tok) /\ Expired(tok)

C9_TaggedFailures == [][C9_Step]_vars

\* C9 witness: a correctly signed, expired token of another issuer, reported
\* as expired
C9_Witness ==
    /\ Validate /\ out.resp.status = 401 /\ out.resp.log = "SSO token expired"
    /\ out.req.token # {}
    /\ OutToken.payload.iss # Issuer /\ Signed(OutToken) /\ Expired(OutToken)

\* A token under another secret, rejected as invalid
C9_WitnessOtherSecret ==
    /\ Validate /\ out.resp.status = 401 /\ out.resp.log = "Invalid SSO token"
    /\ out.req.token # {} /\ OutToken.parts = 3 /\ OutToken.sig.key = OtherSecret

\* Every request answered once: the answer closes the request, and a request
\* in flight can take its next step
OneResponse ==
    /\ Validate => /\ rd = IdleRd
                   /\ out.resp.status \in {200, 400, 401, 403, 404, 500}
    /\ (Ready /\ rd.pc = "verified") => ENABLED SsoValidateTenant
    /\ (Ready /\ rd.pc = "tenantOk") => ENABLED SsoValidateAccess

\* C10 as stated: validateSSOToken throws for no input token, and the handler
\* answers every request once.
C10_Original ==
    /\ (Validate /\ out.req.token # {}) => out.resp.log # "SSO validation error"
    /\ OneResponse

\* C10 amended: with SSO_SECRET configured validateSSOToken throws for no
\* input token; without it validateSSOToken throws for every token, which the
\* handler answers 500 'Validation failed'; the handler answers every request
\* once.
C10_NeverThrowsOnInput ==
    /\ (Validate /\ out.req.token # {}) =>
          /\ out.resp.log = "SSO validation error" <=> ssoSecret = ""
          /\ out.resp.status = 500 <=> ssoSecret = ""
          /\ out.resp.status = 500 => out.resp.error = "Validation failed"
    /\ OneResponse

\* C10 witness: a token that is no JWT, answered 401 with the secret configured
C10_Witness ==
    /\ Validate /\ out.req.token # {} /\ OutToken.parts # 3
    /\ ssoSecret # "" /\ out.resp.status = 401

\* C11: with SSO_SECRET absent no token is ever produced: a mint that gets as
\* far as generateSSOToken is answered 500; no redemption is accepted or gets
\* past validateSSOToken, a redemption that carries a token is answered 500;
\* nothing stands in for the missing secret.
C11_NoSecretNoTokens ==
    ssoSecret = "" =>
        /\ minted = {} /\ out.resp.token = {}
        /\ rd = IdleRd
        /\ out.resp.status \notin {200, 201}
        /\ Validate => out.resp.body = {}
        /\ (/\ out.op = "generate"
            /\ out.req.auth.sub # "" /\ out.req.tenant_id # ""
            /\ Granted(out.req.tenant_id, out.req.auth.sub)) =>
              out.resp.status = 500 /\ out.resp.error = "Failed to generate token"
        /\ (Validate /\ out.req.token # {}) =>
              out.resp.status = 500 /\ out.resp.error = "Validation failed"

\* C11 witness: a mint for a user with the grant, refused for want of the secret
C11_Witness ==
    /\ ssoSecret = "" /\ out.op = "generate" /\ out.resp.status = 500
    /\ Granted(out.req.tenant_id, out.req.auth.sub)

\* A redemption of a token signed under the empty key, refused for want of
\* the secret
C11_WitnessRedeem ==
    /\ ssoSecret = "" /\ Validate /\ out.req.token # {}
    /\ OutToken.parts = 3 /\ OutToken.sig.key = ""

\* The result of the helper call just answered
PeekResult == CHOOSE b \in out.resp.body : TRUE

Undecodable(tok) == tok.parts # 3 \/ ~tok.json \/ tok.payload.exp = Undefined

\* C12: for a token that cannot be decoded or carries no expiry
\* isTokenExpired returns true and getTokenExpiration returns null; for every
\* other token they answer from the exp claim alone, whatever the signature;
\* every call returns a value.
C12_PeekFailsClosed ==
    /\ out.op = "isTokenExpired" =>
          /\ Cardinality(out.resp.body) = 1
          /\ PeekResult.expired \in BOOLEAN
          /\ Undecodable(OutToken) => PeekResult.expired
          /\ ~Undecodable(OutToken) =>
                (PeekResult.expired <=> now >= OutToken.payload.exp * MsPerSec)
    /\ out.op = "getTokenExpiration" =>
          /\ Cardinality(out.resp.body) = 1
          /\ Undecodable(OutToken) => PeekResult.date = {}
          /\ ~Undecodable(OutToken) =>
                PeekResult.date = {OutToken.payload.exp * MsPerSec}

\* C12 witness: isTokenExpired has answered true for a token without expiry
C12_Witness ==
    /\ out.op = "isTokenExpired" /\ OutToken.parts = 3 /\ OutToken.json
    /\ OutToken.payload.exp = Undefined /\ PeekResult.expired

\* getTokenExpiration has answered null for a payload that is no JSON;
\* isTokenExpired has answered false for a token whose signature does not
\* verify
C12_WitnessNull ==
    out.op = "getTokenExpiration" /\ ~OutToken.json /\ PeekResult.date = {}
C12_WitnessUnsigned ==
    out.op = "isTokenExpired" /\ ~Signed(OutToken) /\ ~PeekResult.expired

\* What the caller of POST /api/sso/validate sees of a response
Seen(resp) == [status |-> resp.status, error |-> resp.error, body |-> resp.body]

GenericRejection == Seen(ErrorResp(401, "Invalid or expired token"))

\* C13: every redemption that fails on its token, its tenant or its grant is
\* answered with the one generic rejection, the answer an expired token gets.
C13_FailureCauseHidden ==
    (Validate /\ out.req.token # {} /\ ssoSecret # "" /\ out.resp.status # 200) =>
        Seen(out.resp) = GenericRejection

\* The answers the handler gives apart: a tenant that does not exist, a
\* tenant that is not active, a grant that is missing
C13_SeenTenantNotFound ==
    Validate /\ Seen(out.resp) = Seen(ErrorResp(404, "Tenant not found"))
C13_SeenTenantSuspended ==
    Validate /\ Seen(out.resp) = Seen(ErrorResp(403, "Tenant is suspended"))
C13_SeenGrantMissing ==
    Validate /\ Seen(out.resp) =
                    Seen(ErrorResp(403, "User does not have access to this tenant"))

\* The token has been answered this way before
Had(tok, outcome) == [token |-> tok, outcome |-> outcome] \in outcomes

\* C14 as stated: a token that has been redeemed is never redeemed again.
C14_Original_Step ==
    Redeems => \A tok \in out'.req.token : ~Had(tok, "redeemed")

C14_Original == [][C14_Original_Step]_vars

\* C14 amended: Redeemed is not a terminal state. A token that has been
\* redeemed is redeemed again by every later redemption made while it is
\* unexpired, its tenant active and its grant present, and only while the
\* grant is present.
C14_RedeemedAgain ==
    \A m \in minted :
        (Validate /\ out.req.token = {m.token} /\ Had(m.token, "redeemed")) =>
            /\ (/\ ~Expired(m.token)
                /\ ActiveTenant(m.claims.tenant_id)
                /\ Granted(m.claims.tenant_id, m.claims.user_id)) =>
                  out.resp.status = 200
            /\ out.resp.status = 200 =>
                  Granted(m.claims.tenant_id, m.claims.user_id)

\* C14 witness: the second success of one token
C14_Witness ==
    /\ Validate /\ out.resp.status = 200 /\ out.req.token # {}
    /\ Had(OutToken, "redeemed")

\* C15 as stated: a token once refused because its tenant was not active or
\* its grant was missing is never redeemed afterwards.
C15_Original_Step ==
    Redeems => \A tok \in out'.req.token : ~Had(tok, "tenant") /\ ~Had(tok, "grant")

C15_WitnessExpired ==
    /\ Validate /\ out.resp.status = 401 /\ out.req.token # {}
    /\ Had(OutToken, "expired")

\* The token verifies under the configured secret at this instant
VerifyOk(tok) ==
    /\ Signed(tok) /\ tok.json /\ ~Expired(tok)
    /\ ~WrongIssuerOrAudience(tok)

RdTenant == CHOOSE x \in rd.tenant : TRUE

\* C16: each step of a redemption is decided by the token, the clock, the
\* secret and the rows in the store at that step, and by nothing else: not
\* by the mints and redemptions that went before. A mint is decided by its
\* request, the grant row, the secret and the clock.
C16_Step ==
    /\ (StartStep /\ ssoSecret # "") =>
          \A tok \in StartToken :
              IF VerifyOk(tok)
              THEN /\ rd' = [IdleRd EXCEPT !.pc = "verified", !.token = {tok},
                                           !.payload = {tok.payload}]
                   /\ out' = out
              ELSE RejectedAs(IF Signed(tok) /\ tok.json /\ Expired(tok)
                              THEN "SSO token expired" ELSE "Invalid SSO token")
    /\ (rd.pc = "verified" /\ rd' # rd) =>
          IF ActiveTenant(RdPayload.tenant_id)
          THEN /\ rd'.pc = "tenantOk" /\ out' = out
               /\ rd'.tenant = {r \in tenants : r.id = RdPayload.tenant_id}
          ELSE /\ rd' = IdleRd /\ out'.req.token = rd.token
               /\ Seen(out'.resp) =
                     IF NoTenant(RdPayload.tenant_id)
                     THEN Seen(ErrorResp(404, "Tenant not found"))
                     ELSE Seen(ErrorResp(403, "Tenant is " \o
                             (CHOOSE r \in tenants : r.id = RdPayload.tenant_id).status))
    /\ (rd.pc = "tenantOk" /\ rd' # rd) =>
          /\ rd' = IdleRd /\ out'.req.token = rd.token
          /\ Seen(out'.resp) =
                IF Granted(RdPayload.tenant_id, RdPayload.user_id)
                THEN [status |-> 200, error |-> "",
                      body |-> {[tenant_id |-> RdPayload.tenant_id,
                                 user_id |-> RdPayload.user_id,
                                 email |-> RdPayload.email,
                                 role |-> g.role,
                                 plan |-> RdTenant.plan]
                                   : g \in {x \in tenant_users :
                                              /\ x.tenant_id = RdPayload.tenant_id
                                              /\ x.user_id = RdPayload.user_id}}]
                ELSE Seen(ErrorResp(403, "User does not have access to this tenant"))

C16_Mint ==
    \A tok \in out.resp.token :
        out.op = "generate" =>
            /\ tok.sig = Mac(ssoSecret, tok.header, tok.payload)
            /\ tok.payload.iat = Seconds(now)
            /\ tok.payload.tenant_id = out.req.tenant_id
            /\ tok.payload.user_id = out.req.auth.sub
            /\ tok.payload.email =
                  IF out.req.auth.email = "" THEN DefaultEmail ELSE out.req.auth.email

SsoStep ==
    \/ out = NoOut /\ out'.op \in {"generate", "validate"}
    \/ rd' # rd

\* C17: no step of POST /api/sso/generate or POST /api/sso/validate, on any
\* path, changes a tenant row or a grant row.
C17_Step == SsoStep => tenants' = tenants /\ tenant_users' = tenant_users

C17_SsoOnlyReads == [][C17_Step]_vars

\* C17 witness: a redemption refused after both tables were read, with the
\* rows of the tenant still in the store
C17_Witness ==
    /\ Validate /\ out.resp.status = 403 /\ out.resp.reads = BothReads
    /\ out.req.token # {} /\ ActiveTenant(OutToken.payload.tenant_id)
    /\ ~Granted(OutToken.payload.tenant_id, OutToken.payload.user_id)

\* C18: the success payload carries the plan of the tenant row and the role
\* of the grant row that the redemption itself read from the store, and the
\* tenant_id, user_id and email of the token.
C18_Step ==
    /\ (rd.pc = "verified" /\ rd'.pc = "tenantOk") =>
          rd'.tenant = {r \in tenants : r.id = RdPayload.tenant_id}
    /\ Redeems =>
          /\ out'.resp.body # {}
          /\ \A b \in out'.resp.body :
                /\ b.plan = RdTenant.plan
                /\ \E g \in tenant_users :
                      /\ g.tenant_id = RdPayload.tenant_id
                      /\ g.user_id = RdPayload.user_id
                      /\ g.role = b.role
                /\ \A tok \in out'.req.token :
                      /\ b.tenant_id = tok.payload.tenant_id
                      /\ b.user_id = tok.payload.user_id
                      /\ b.email = tok.payload.email

C18_RoleAndPlanFromStore == [][C18_Step]_vars

\* C18 witness: the plan was changed after the mint; the payload has the new one
C18_Witness ==
    /\ Validate /\ out.resp.status = 200
    /\ \E m \in minted, b \in out.resp.body, r \in tenants :
          /\ out.req.token = {m.token}
          /\ r.id = m.claims.tenant_id /\ b.plan = r.plan
          /\ b.plan \notin m.plan

\* The role was changed after the mint; the payload has the new one
C18_WitnessRole ==
    /\ Validate /\ out.resp.status = 200
    /\ \E b \in out.resp.body : b.role # "owner"
    /\ \E m \in minted : out.req.token = {m.token} /\ m.claims.user_id = "u1"

\* The request just answered is a project creation
Create == out.op = "create"

InitFailed == Create /\ out.resp.error = "Failed to initialize project data"

\* C19: a project creation whose initializeTenantData failed is answered
\* with an error and no token, and at that point the store holds neither the
\* tenant row the request had inserted nor any grant for that tenant; no
\* grant is ever left without its tenant.
C19_RolledBack ==
    /\ InitFailed =>
          /\ out.resp.status = 500 /\ out.resp.token = {} /\ out.resp.body = {}
          /\ out.req.tenant_id # ""
          /\ NoTenant(out.req.tenant_id)
          /\ \A g \in tenant_users : g.tenant_id # out.req.tenant_id
    /\ \A g \in tenant_users : ~NoTenant(g.tenant_id)

\* C19 witness: the creation of the second tenant, rolled back
C19_Witness == InitFailed /\ out.req.tenant_id = "t2" /\ out.req.auth.sub = "u2"

UniqueSubdomains ==
    \A r1 \in tenants, r2 \in tenants : r1.subdomain = r2.subdomain => r1 = r2

\* C20 as stated: no two tenant rows share a subdomain, and a request for a
\* subdomain that another tenant holds is answered 409 'Subdomain already
\* taken'.
C20_Original ==
    /\ UniqueSubdomains
    /\ (/\ Create /\ out.req.subdomain # <<>>
        /\ \E r \in tenants : r.subdomain = out.req.subdomain /\ r.id # out.req.tenant_id)
          => out.resp.status = 409 /\ out.resp.error = "Subdomain already taken"

\* C20 amended: no two tenant rows ever share a subdomain; a request is
\* answered 201 only for the one row it has itself inserted, and once;
\* a request that finds the subdomain taken at its check is answered 409; a
\* request that found it free and then loses the race for it is answered 500
\* 'Failed to create project'.
C20_Step ==
    /\ \A r \in {x \in tenants' : NoTenant(x.id)} :
          /\ tenants' = tenants \cup {r}
          /\ \A x \in tenants : x.subdomain # r.subdomain
          /\ \E c \in BagToSet(cr) : c.pc = "checked" /\ c.subdomain = r.subdomain
    /\ (Answers("create") /\ out'.resp.status = 201) =>
          \E c \in BagToSet(cr) :
              /\ c.pc = "granted" /\ c.tenant = out'.resp.body
              /\ cr' = cr (-) SetToBag({c})
    /\ (Answers("create") /\ out'.resp.status = 409) =>
          /\ cr' = cr
          /\ \E r \in tenants : r.subdomain = out'.req.subdomain
    /\ (Answers("create") /\ out'.resp.error = "Failed to create project") =>
          /\ out'.resp.status = 500
          /\ \E c \in BagToSet(cr) :
                /\ c.pc = "checked" /\ c.subdomain = out'.req.subdomain
                /\ cr' = cr (-) SetToBag({c})
          /\ \E r \in tenants : r.subdomain = out'.req.subdomain
    /\ (\E c \in BagToSet(cr) : c.pc = "checked"
            /\ \E r \in tenants : r.subdomain = c.subdomain
            /\ cr' = cr (-) SetToBag({c}))
          => out'.resp.error = "Failed to create project"

C20_UniqueSubdomains == []UniqueSubdomains /\ [][C20_Step]_vars

\* C20 witness: of two requests for one subdomain the second to insert is
\* answered 500 'Failed to create project'
C20_Witness ==
    /\ Create /\ out.resp.status = 500 /\ out.resp.error = "Failed to create project"
    /\ \E r \in tenants : r.subdomain = out.req.subdomain /\ r.id = "t2"

\* A token the verification finds nothing wrong with but, possibly, its age
Genuine(tok) ==
    /\ ssoSecret # "" /\ tok.parts = 3 /\ tok.json
    /\ tok.sig = Mac(ssoSecret, tok.header, tok.payload)
    /\ tok.payload.iss = Issuer /\ tok.payload.aud = Audience
    /\ tok.payload.exp # Undefined

\* C25: for a correctly signed token with the right issuer and audience,
\* isTokenExpired returns true exactly when validateSSOToken at the same
\* instant rejects the token as expired, and that is exactly when the clock
\* in milliseconds has reached exp * 1000.
C25_ExpiryBoundaryAgrees ==
    (out.op = "isTokenExpired" /\ Genuine(OutToken)) =>
        LET v == validateSSOToken(OutToken, ssoSecret, now)
        IN /\ PeekResult.expired <=> (v.payload = {} /\ v.log = "SSO token expired")
           /\ PeekResult.expired <=> now >= OutToken.payload.exp * MsPerSec
           /\ ~PeekResult.expired <=> v.payload = {OutToken.payload}

\* C25 witness: isTokenExpired has answered true at the instant exp * 1000
C25_Witness ==
    /\ out.op = "isTokenExpired" /\ Genuine(OutToken)
    /\ now = OutToken.payload.exp * MsPerSec
    /\ PeekResult.expired
    /\ validateSSOToken(OutToken, ssoSecret, now).log = "SSO token expired"

\* isTokenExpired has answered false half a second before
C25_WitnessLive ==
    /\ out.op = "isTokenExpired" /\ Genuine(OutToken)
    /\ now = OutToken.payload.exp * MsPerSec - (MsPerSec \div 2)
    /\ ~PeekResult.expired

\* The status POST /api/sso/generate owes a request, told from the request,
\* the grants and the secret, the tenants table left aside
GenerateStatus(req) ==
    IF req.auth.kind # "jwt" \/ req.auth.sub = "" THEN 401
    ELSE IF req.tenant_id = "" THEN 400
    ELSE IF ~Granted(req.tenant_id, req.auth.sub) THEN 403
    ELSE IF ssoSecret = "" THEN 500
    ELSE 200

C24_Step ==
    /\ Answers("generate") =>
          /\ out'.resp.status = GenerateStatus(out'.req)
          /\ Cardinality(out'.resp.token) = IF out'.resp.status = 200 THEN 1 ELSE 0
          /\ out'.resp.reads \in {<<>>, <<"tenant_users">>}
    /\ (rd.pc = "verified" /\ rd' # rd /\ InactiveTenant(RdPayload.tenant_id)) =>
          /\ out'.op = "validate" /\ out'.resp.status = 403
          /\ out'.resp.body = {} /\ rd' = IdleRd

\* C24: the answer of POST /api/sso/generate is decided by the request, the
\* grant and the secret, and is the same whatever the status of the target
\* tenant: a token is issued whenever the grant exists; the status is
\* looked at in redemption only, which refuses the token of a tenant that is
\* not active.
C24_MintIgnoresStatus == [][C24_Step]_vars

\* C24 witness: a token has been issued for a tenant that is not active
C24_Witness ==
    /\ out.op = "generate" /\ out.resp.status = 200
    /\ InactiveTenant(out.req.tenant_id)

\* ... and its redemption has been refused over the tenant's status
C24_WitnessRefused ==
    /\ Validate /\ out.resp.status = 403 /\ out.resp.reads = <<"tenants">>
    /\ \E m \in minted : m.token = OutToken /\ m.status # {"active"}

\* C23: POST /api/projects/create answers 201 only when the request's own
\* inserts have stored an active tenant row and the owner grant of the
\* creating user for it, and the token in the access_url names that tenant
\* and user and verifies at that instant, so that it is redeemable at once.
C23_Step ==
    (Answers("create") /\ out'.resp.status = 201) =>
        \E tok \in out'.resp.token, c \in BagToSet(cr), row \in out'.resp.body :
            /\ c.pc = "granted" /\ c.tenant = {row}
            /\ row.status = "active" /\ row.owner_id = out'.req.auth.sub
            /\ c.grant = {[tenant_id |-> row.id, user_id |-> out'.req.auth.sub,
                           role |-> "owner"]}
            /\ tok.payload.tenant_id = row.id
            /\ tok.payload.user_id = out'.req.auth.sub
            /\ Signed(tok) /\ ~Expired(tok)
            /\ tok.payload.iss = Issuer /\ tok.payload.aud = Audience

C23_CreatedTokenRedeemable == [][C23_Step]_vars

\* The 201 of a request whose grant never reached the store
C23_SeenUnredeemable ==
    /\ Create /\ out.resp.status = 201
    /\ \E tok \in out.resp.token :
          /\ NoTenant(tok.payload.tenant_id)
          /\ ~Granted(tok.payload.tenant_id, tok.payload.user_id)

\* The request just answered is a tenant lookup; what it asked for; the
\* rows that carry it
Lookup == out.op \in {"by-subdomain", "by-domain"}
LookupParam == IF out.op = "by-subdomain" THEN out.req.subdomain ELSE out.req.domain
LookupRows ==
    {r \in tenants : IF out.op = "by-subdomain" THEN r.subdomain = LookupParam
                                                ELSE r.custom_domain = LookupParam}

\* The request carries the configured key; the request gets past the
\* handler's key check
KeyGiven == out.req.api_key = {internalApiKey}
PastKeyCheck == internalApiKey = "" \/ KeyGiven

NotFound == [ErrorResp(404, "Tenant not found") EXCEPT !.reads = <<"tenants">>]

\* C21: a lookup answers with a tenant_id only for a tenant that carries the
\* subdomain or custom domain asked for and is active at that moment; a
\* lookup that names a suspended or cancelled tenant gets the very response
\* of one that names no tenant, 404 'Tenant not found'.
C21_LookupOnlyActive ==
    Lookup =>
        /\ \A b \in out.resp.body :
              /\ out.resp.status = 200
              /\ \E r \in LookupRows : r.id = b.tenant_id /\ r.status = "active"
        /\ out.resp.status = 200 => Cardinality(out.resp.body) = 1
        /\ (PastKeyCheck /\ LookupParam # <<>>) =>
              /\ (\E r \in LookupRows : r.status = "active") => out.resp.status = 200
              /\ (\A r \in LookupRows : r.status # "active") => out.resp = NotFound

\* C21 witness: the lookup of the subdomain of a tenant that is not active
\* has been answered 404
C21_Witness ==
    /\ out.op = "by-subdomain" /\ out.resp = NotFound
    /\ \E r \in LookupRows : r.status \in {"suspended", "cancelled"}

\* ... and so have the lookup of its custom domain and the lookup of a
\* subdomain no tenant has; the lookup of an active tenant has been answered
\* with its id
C21_WitnessDomain ==
    /\ out.op = "by-domain" /\ out.resp = NotFound
    /\ \E r \in LookupRows : r.status \in {"suspended", "cancelled"}
C21_WitnessNone ==
    /\ out.op = "by-subdomain" /\ out.resp = NotFound
    /\ PastKeyCheck /\ LookupParam # <<>> /\ LookupRows = {}
C21_WitnessFound ==
    /\ out.op = "by-domain" /\ out.resp.body = {[tenant_id |-> "t1"]}

\* C22: a lookup whose x-api-key header is not INTERNAL_API_KEY is answered
\* 401 'Unauthorized' without a read of the store, and only a lookup that
\* carries the key is answered with a tenant_id.
C22_LookupNeedsKey ==
    Lookup =>
        /\ ~KeyGiven => /\ out.resp = ErrorResp(401, "Unauthorized")
                        /\ out.resp.reads = <<>>
        /\ out.resp.body # {} => KeyGiven

\* A lookup without the header has been answered with a tenant_id
C22_SeenOpen ==
    /\ Lookup /\ out.req.api_key = {} /\ out.resp.status = 200
    /\ out.resp.body = {[tenant_id |-> "t1"]}

\* With INTERNAL_API_KEY configured the key check does what C22 says
C22_Configured == internalApiKey # "" => C22_LookupNeedsKey

----------------------------------------------------------------------------
Next ==
    \/ Tick
    \/ SsoGeneratePOST
    \/ SsoValidateStart
    \/ SsoValidateTenant
    \/ SsoValidateAccess
    \/ Deliver
    \/ BillingUpdateTenant
    \/ DeleteTenant
    \/ RevokeGrant
    \/ AssignGrant

Spec == Init /\ [][Next]_vars

\* Provisioning: projects are created by concurrent requests while tokens
\* are minted for them and the collaborators write to the store
NextCreate ==
    \/ ProjectsCreatePOST
    \/ ProjectsCreateTenant
    \/ ProjectsCreateGrant
    \/ ProjectsCreateFinish
    \/ SsoGeneratePOST
    \/ Deliver
    \/ BillingUpdateTenant
    \/ DeleteTenant
    \/ RevokeGrant
    \/ AssignGrant

SpecCreate == Init /\ [][NextCreate]_vars

\* The side of the token holder: tokens are minted, time passes, and the
\* holder asks the helpers about the tokens it has
NextPeek ==
    \/ Tick
    \/ SsoGeneratePOST
    \/ IsTokenExpiredCall
    \/ GetTokenExpirationCall
    \/ Deliver

SpecPeek == Init /\ [][NextPeek]_vars

\* The cloud deployment looks tenants up while billing and provisioning
\* write to the store
NextLookup ==
    \/ TenantsBySubdomainGET
    \/ TenantsByCustomDomainGET
    \/ Deliver
    \/ BillingUpdateTenant
    \/ DeleteTenant

SpecLookup == InitLookup /\ [][NextLookup]_vars

====
